---- MODULE Spec2Model ----
(***************************************************************************)
(* djbdns2bind: Translator.run() = parse() followed by write(), modelled   *)
(* as a state machine.  A Python str is a sequence of one-character        *)
(* strings; the values of the slots that may also hold None or an int      *)
(* (self.domain, self.ttl, the return values of _getHost and _getDomain)   *)
(* are tagged records.                                                     *)
(***************************************************************************)
EXTENDS Integers, Sequences, FiniteSets, TLC

VARIABLES
    labels,          \* the labels the FQDN of the input was built from (input of SpecFn)
    rawContents,     \* self.rawContents: the text of the input file
    lines,           \* the list the for statement of parse() iterates over
    i,               \* index in lines of the line the loop of parse() is at
    parsedContents,  \* self.parsedContents: dict from record type to its data
    domain,          \* self.domain
    ttl,             \* self.ttl
    output,          \* the lines printed to stdout so far, each with its print statement
    pc,              \* the statement run() is at
    error,           \* the uncaught exception that ended the run ("" when none)
    exitStatus       \* the exit status of the process (-1 while it runs)

vars == <<labels, rawContents, lines, i, parsedContents, domain, ttl, output, pc,
          error, exitStatus>>

---------------------------------------------------------------------------
(* Python values *)

None == [type |-> "NoneType"]
PyStr(s) == [type |-> "str", val |-> s]
PyInt(n) == [type |-> "int", val |-> n]

\* bool(v) of a str or None: the `not self.ttl` test
Truthy(v) == v.type = "str" /\ v.val # <<>>

Digit(d) == <<"0", "1", "2", "3", "4", "5", "6", "7", "8", "9">>[d + 1]

RECURSIVE Decimal(_)
Decimal(n) == IF n < 10 THEN <<Digit(n)>> ELSE Decimal(n \div 10) \o <<Digit(n % 10)>>

\* what '{}'.format(v) substitutes for v
format(v) ==
    IF v.type = "NoneType" THEN <<"N", "o", "n", "e">>
    ELSE IF v.type = "int" THEN Decimal(v.val)
    ELSE v.val

\* s.split(sep) for a one-character sep: never the empty list
RECURSIVE split(_, _)
split(s, sep) ==
    IF \A k \in 1..Len(s) : s[k] # sep
    THEN <<s>>
    ELSE LET k == CHOOSE k \in 1..Len(s) : s[k] = sep /\ \A j \in 1..(k - 1) : s[j] # sep
         IN  <<SubSeq(s, 1, k - 1)>> \o split(SubSeq(s, k + 1, Len(s)), sep)

\* sep.join(parts)
RECURSIVE join(_, _)
join(sep, parts) ==
    IF parts = <<>> THEN <<>>
    ELSE IF Len(parts) = 1 THEN parts[1]
    ELSE parts[1] \o sep \o join(sep, Tail(parts))

\* s.splitlines() for the line terminator "\n": a final terminator opens no line
splitlines(s) ==
    IF s = <<>> THEN <<>>
    ELSE LET p == split(s, "\n")
         IN  IF p[Len(p)] = <<>> THEN SubSeq(p, 1, Len(p) - 1) ELSE p

\* s[:1] and s[1:]
FirstChar(s) == IF s = <<>> THEN <<>> ELSE <<s[1]>>
AfterFirst(s) == IF s = <<>> THEN <<>> ELSE Tail(s)

---------------------------------------------------------------------------
(* Translator._getHost and Translator._getDomain *)

\* _getHost with the trailing '.' of the short branch left out
getHostNoDot(fqdn, full) ==
    LET match == split(fqdn, ".")
        last  == Len(match)
    IN  IF match = <<>> THEN None
        ELSE IF last >= 3
             THEN PyStr(join(<<".">>, SubSeq(match, 1, last - 2)))
             ELSE PyStr(join(<<".">>, match))

\* The value assigned under `if full` is overwritten by both branches below it.
_getHost(fqdn, full) ==
    LET match == split(fqdn, ".")
        last  == Len(match)
    IN  IF match = <<>> THEN None
        ELSE IF last >= 3
             THEN PyStr(join(<<".">>, SubSeq(match, 1, last - 2)))
             ELSE PyStr(join(<<".">>, match) \o <<".">>)

\* _getDomain with the slice starting one label early
getDomainThreeLabels(fqdn) ==
    LET match == split(fqdn, ".")
        last  == Len(match)
    IN  IF match = <<>> THEN None
        ELSE IF last >= 3
             THEN PyStr(join(<<".">>, SubSeq(match, last - 2, last)))
             ELSE PyStr(join(<<".">>, match))

_getDomain(fqdn) ==
    LET match == split(fqdn, ".")
        last  == Len(match)
    IN  IF match = <<>> THEN None
        ELSE IF last >= 3
             THEN PyStr(join(<<".">>, SubSeq(match, last - 1, last)))
             ELSE PyStr(join(<<".">>, match))

---------------------------------------------------------------------------
(* Translator.__init__ *)

\* self.mappings with one more register
mappingsWithHash ==
    (<<"Z">> :> [type |-> "SOA"]) @@ (<<"&">> :> [type |-> "NS"]) @@
    (<<"@">> :> [type |-> "MX"]) @@ (<<"+">> :> [type |-> "A"]) @@
    (<<"C">> :> [type |-> "CNAME"]) @@ (<<"#">> :> [type |-> "A"])

\* self.mappings: register -> record type (its 'format' entry is never read)
mappings ==
    (<<"Z">> :> [type |-> "SOA"]) @@ (<<"&">> :> [type |-> "NS"]) @@
    (<<"@">> :> [type |-> "MX"]) @@ (<<"+">> :> [type |-> "A"]) @@
    (<<"C">> :> [type |-> "CNAME"])

\* the fallback value of self.ttl
DefaultTtl == 3600

\* the status of sys.exit on an invalid SOA domain
ExitInvalidDomain == 2

\* d.update({k: v})
dictUpdate(d, k, v) == (k :> v) @@ d

---------------------------------------------------------------------------
(* Translator.parse: the body of the loop, on the parser's state           *)
(* st = [parsedContents, domain, ttl, error, exitStatus] and the fields    *)
(* data of the line.  Python numbers the fields from 0, TLA+ from 1.       *)

\* an uncaught exception ends the process with status 1
raise(st, exc) == [st EXCEPT !.error = exc, !.exitStatus = 1]

\* parseSOA without the fallback value of self.ttl
parseSOANoFallback(st, data) ==
    LET d  == _getDomain(AfterFirst(data[1]))
        s1 == [st EXCEPT !.domain = d]
    IN  IF d = None
        THEN [s1 EXCEPT !.error = "SystemExit", !.exitStatus = ExitInvalidDomain]
        ELSE IF Len(data) < 9
        THEN raise(s1, "IndexError")
        ELSE LET soa == [domain     |-> d,
                         nameserver |-> data[2],
                         email      |-> data[3],
                         serial     |-> data[4],
                         refresh    |-> data[5],
                         retry      |-> data[6],
                         expire     |-> data[7],
                         minimum    |-> data[8],
                         ttl        |-> data[9]]
             IN  [s1 EXCEPT !.parsedContents = dictUpdate(@, "SOA", soa),
                            !.ttl = PyStr(soa.ttl)]

\* parseSOA that keeps the SOA line it met first
parseSOAKeepFirst(st, data) ==
    IF "SOA" \in DOMAIN st.parsedContents THEN st
    ELSE LET d  == _getDomain(AfterFirst(data[1]))
             s1 == [st EXCEPT !.domain = d]
         IN  IF d = None
             THEN [s1 EXCEPT !.error = "SystemExit", !.exitStatus = ExitInvalidDomain]
             ELSE IF Len(data) < 9
             THEN raise(s1, "IndexError")
             ELSE LET soa == [domain     |-> d,
                              nameserver |-> data[2],
                              email      |-> data[3],
                              serial     |-> data[4],
                              refresh    |-> data[5],
                              retry      |-> data[6],
                              expire     |-> data[7],
                              minimum    |-> data[8],
                              ttl        |-> data[9]]
                  IN  [s1 EXCEPT !.parsedContents = dictUpdate(@, "SOA", soa),
                                 !.ttl = IF Truthy(PyStr(soa.ttl))
                                         THEN PyStr(soa.ttl)
                                         ELSE PyInt(DefaultTtl)]

\* the SOA branch: self.domain is assigned before the fields are read
parseSOA(st, data) ==
    LET d  == _getDomain(AfterFirst(data[1]))
        s1 == [st EXCEPT !.domain = d]
    IN  IF d = None
        THEN [s1 EXCEPT !.error = "SystemExit", !.exitStatus = ExitInvalidDomain]
        ELSE IF Len(data) < 9
        THEN raise(s1, "IndexError")
        ELSE LET soa == [domain     |-> d,
                         nameserver |-> data[2],
                         email      |-> data[3],
                         serial     |-> data[4],
                         refresh    |-> data[5],
                         retry      |-> data[6],
                         expire     |-> data[7],
                         minimum    |-> data[8],
                         ttl        |-> data[9]]
             IN  [s1 EXCEPT !.parsedContents = dictUpdate(@, "SOA", soa),
                            !.ttl = IF Truthy(PyStr(soa.ttl))
                                    THEN PyStr(soa.ttl)
                                    ELSE PyInt(DefaultTtl)]

\* `if type not in self.parsedContents: self.parsedContents.update({type: []})`
ensureList(st, type) ==
    IF type \notin DOMAIN st.parsedContents
    THEN [st EXCEPT !.parsedContents = dictUpdate(@, type, <<>>)]
    ELSE st

\* appendRR inserting at the head of the list
appendRRFront(st, type, rr) ==
    [st EXCEPT !.parsedContents = [@ EXCEPT ![type] = <<rr>> \o @]]

\* self.parsedContents[type].append(rr)
appendRR(st, type, rr) ==
    [st EXCEPT !.parsedContents = [@ EXCEPT ![type] = Append(@, rr)]]

parseNS(st, data) ==
    LET s1 == ensureList(st, "NS")
    IN  IF Len(data) < 3 THEN raise(s1, "IndexError")
        ELSE appendRR(s1, "NS", [hostname       |-> AfterFirst(data[1]),
                                 ip             |-> data[2],
                                 targetHostname |-> data[3]])

parseMX(st, data) ==
    LET s1 == ensureList(st, "MX")
    IN  IF Len(data) < 4 THEN raise(s1, "IndexError")
        ELSE appendRR(s1, "MX", [hostname       |-> AfterFirst(data[1]),
                                 ip             |-> data[2],
                                 targetHostname |-> data[3],
                                 priority       |-> data[4]])

parseA(st, data) ==
    LET s1 == ensureList(st, "A")
    IN  IF Len(data) < 2 THEN raise(s1, "IndexError")
        ELSE appendRR(s1, "A", [hostname |-> _getHost(AfterFirst(data[1]), FALSE),
                                ip       |-> data[2]])

parseCNAME(st, data) ==
    LET s1 == ensureList(st, "CNAME")
    IN  IF Len(data) < 2 THEN raise(s1, "IndexError")
        ELSE appendRR(s1, "CNAME", [hostname       |-> _getHost(AfterFirst(data[1]), FALSE),
                                    targetHostname |-> data[2]])

\* `register in self.mappings.keys()`
isMapped(register) == register \in DOMAIN mappings

\* one iteration of the loop
parseLine(st, line) ==
    LET data     == split(line, ":")
        register == FirstChar(data[1])
    IN  IF data = <<>> THEN st
        ELSE IF ~isMapped(register) THEN st
        ELSE LET type == mappings[register].type
             IN  CASE type = "SOA"   -> parseSOA(st, data)
                   [] type = "NS"    -> parseNS(st, data)
                   [] type = "MX"    -> parseMX(st, data)
                   [] type = "A"     -> parseA(st, data)
                   [] type = "CNAME" -> parseCNAME(st, data)
                   [] OTHER          -> st

\* the loop of parse() over the lines ls: an exception or sys.exit ends it
RECURSIVE parse(_, _)
parse(st, ls) ==
    IF ls = <<>> \/ st.error # "" THEN st
    ELSE parse(parseLine(st, Head(ls)), Tail(ls))

\* the parser's state in the current state
parserState ==
    [parsedContents |-> parsedContents, domain |-> domain, ttl |-> ttl,
     error |-> error, exitStatus |-> exitStatus]

---------------------------------------------------------------------------
(* Translator.write: the printed lines *)

Tabs == <<"\t", "\t", "\t", "\t", "\t", "\t">>

originLine(d) == <<"$", "O", "R", "I", "G", "I", "N", " ">> \o format(d) \o <<".">>

ttlLine(t) == <<"$", "T", "T", "L", " ">> \o format(t)

soaLine(soa) ==
    <<"@", " ", " ", " ", " ", " ", " ", "I", "N", " ", "S", "O", "A", " ">>
    \o soa.nameserver \o <<" ">> \o soa.email \o <<" ", "(">> \o soa.serial
    \o <<" ">> \o soa.refresh \o <<" ">> \o soa.retry \o <<" ">> \o soa.expire
    \o <<" ">> \o soa.ttl \o <<")">>

nsLine(rr) == Tabs \o <<"I", "N", " ", "N", "S", " ">> \o rr.targetHostname

mxLine(rr) ==
    Tabs \o <<"I", "N", " ", "M", "X", " ">> \o rr.priority \o <<" ">> \o rr.targetHostname

aLine(rr) == format(rr.hostname) \o Tabs \o <<"I", "N", " ", "A", " ">> \o rr.ip

cnameLine(rr) ==
    format(rr.hostname) \o Tabs \o <<"I", "N", " ", "C", "N", "A", "M", "E", " ">>
    \o rr.targetHostname \o <<".">>

\* print(text) by the statement stmt of write()
printed(stmt, text) == [stmt |-> stmt, text |-> text]

\* the line the loop over the records of the type prints for rr
rrLine(type, rr) ==
    CASE type = "NS" -> nsLine(rr) [] type = "MX" -> mxLine(rr)
      [] type = "A" -> aLine(rr) [] type = "CNAME" -> cnameLine(rr)

\* `for rr in self.parsedContents[type]: print(...)`
printAll(type, rrs) == [k \in 1..Len(rrs) |-> printed(type, rrLine(type, rrs[k]))]

---------------------------------------------------------------------------
(* Inputs *)

\* at most MaxLines lines drawn from AllLines
MaxLines == 3

\* a zone: SoaLine, then at most MaxZoneLines lines drawn from ZoneRecords
MaxZoneLines == 4

\* FQDNs of at most MaxLabels labels drawn from Labels
MaxLabels == 4

\* Ze.c:n:m:1:2:3:4:5:6
SoaLine ==
    <<"Z", "e", ".", "c", ":", "n", ":", "m", ":", "1", ":", "2", ":", "3", ":", "4",
      ":", "5", ":", "6">>

\* Zs.x.y:p:q:9:8:7:6:5:    (three labels, empty ttl field)
SoaLineNoTtl ==
    <<"Z", "s", ".", "x", ".", "y", ":", "p", ":", "q", ":", "9", ":", "8", ":", "7",
      ":", "6", ":", "5", ":">>

\* Z:n:m:1:2:3:4:5:6        (empty FQDN)
SoaLineNoFqdn ==
    <<"Z", ":", "n", ":", "m", ":", "1", ":", "2", ":", "3", ":", "4", ":", "5", ":", "6">>

\* Ze.c:n                   (too few fields)
SoaLineShort == <<"Z", "e", ".", "c", ":", "n">>

\* &e.c:1:n.e.c
NsLine == <<"&", "e", ".", "c", ":", "1", ":", "n", ".", "e", ".", "c">>

\* @e.c:1:m.e.c:5
MxLine == <<"@", "e", ".", "c", ":", "1", ":", "m", ".", "e", ".", "c", ":", "5">>

\* +b.e.c:8
ALineB == <<"+", "b", ".", "e", ".", "c", ":", "8">>

\* +a.e.c:7
ALineA == <<"+", "a", ".", "e", ".", "c", ":", "7">>

\* +b                       (too few fields)
ALineShort == <<"+", "b">>

\* Cg.e.c:b.e.c
CnameLine == <<"C", "g", ".", "e", ".", "c", ":", "b", ".", "e", ".", "c">>

\* #x:y:z                   (unknown register, three fields)
CommentLine == <<"#", "x", ":", "y", ":", "z">>

\* the empty line
EmptyLine == <<>>

AllLines ==
    {SoaLine, SoaLineNoTtl, SoaLineNoFqdn, SoaLineShort, NsLine, MxLine, ALineB,
     ALineShort, CnameLine, CommentLine, EmptyLine}

ZoneRecords == {NsLine, MxLine, ALineB, ALineA, CnameLine}

Labels == {<<>>, <<"w">>, <<"e", "x">>, <<"c">>}

SeqsUpTo(S, n) == UNION {[1..k -> S] : k \in 0..n}

\* the text of a file holding the lines ls
TextOf(ls) == join(<<"\n">>, ls)

\* a zone whose SOA, A and CNAME lines name the FQDN made of the labels ls
FqdnZone(ls) ==
    LET fqdn == join(<<".">>, ls)
    IN  <<<<"Z">> \o fqdn \o SubSeq(SoaLine, 5, Len(SoaLine)),
          NsLine, MxLine,
          <<"+">> \o fqdn \o <<":", "8">>,
          <<"C">> \o fqdn \o <<":", "b", ".", "e", ".", "c">>>>

---------------------------------------------------------------------------
(* The state machine *)

\* the state after Translator(['--run', '--file', path]) has read the file
Constructed ==
    /\ lines = <<>>
    /\ i = 0
    /\ parsedContents = <<>>
    /\ domain = None
    /\ ttl = None
    /\ output = <<>>
    /\ pc = "start"
    /\ error = ""
    /\ exitStatus = -1

Init ==
    /\ labels = <<>>
    /\ rawContents \in {TextOf(ls) : ls \in SeqsUpTo(AllLines, MaxLines)}
                       \cup {TextOf(<<SoaLine>> \o ls) :
                                 ls \in SeqsUpTo(ZoneRecords, MaxZoneLines)}
    /\ Constructed

InitFn ==
    /\ labels \in SeqsUpTo(Labels, MaxLabels) \ {<<>>}
    /\ rawContents = TextOf(FqdnZone(labels))
    /\ Constructed

\* run() enters parse(): the for statement evaluates self.rawContents.splitlines()
ParseBegin ==
    /\ pc = "start"
    /\ lines' = splitlines(rawContents)
    /\ i' = 1
    /\ pc' = "parse"
    /\ UNCHANGED <<labels, rawContents, parsedContents, domain, ttl, output, error,
                   exitStatus>>

\* one iteration of the loop of parse(); an exception or sys.exit ends the process
ParseLine ==
    /\ pc = "parse"
    /\ i <= Len(lines)
    /\ LET st == parseLine(parserState, lines[i])
       IN  /\ parsedContents' = st.parsedContents
           /\ domain' = st.domain
           /\ ttl' = st.ttl
           /\ error' = st.error
           /\ exitStatus' = st.exitStatus
           /\ pc' = IF st.error # "" THEN "exited" ELSE "parse"
           /\ i' = IF st.error # "" THEN i ELSE i + 1
    /\ UNCHANGED <<labels, rawContents, lines, output>>

\* the loop is over: parse() returns and run() enters write()
ParseEnd ==
    /\ pc = "parse"
    /\ i > Len(lines)
    /\ pc' = "write_origin"
    /\ UNCHANGED <<labels, rawContents, lines, i, parsedContents, domain, ttl, output,
                   error, exitStatus>>

\* statement `at` of write() prints `out` and goes on to `next`
Emit(at, out, next) ==
    /\ pc = at
    /\ output' = output \o out
    /\ pc' = next
    /\ UNCHANGED <<labels, rawContents, lines, i, parsedContents, domain, ttl, error,
                   exitStatus>>

\* statement `at` of write() raises KeyError: the process ends with status 1
RaiseKeyError(at) ==
    /\ pc = at
    /\ pc' = "exited"
    /\ error' = "KeyError"
    /\ exitStatus' = 1
    /\ UNCHANGED <<labels, rawContents, lines, i, parsedContents, domain, ttl, output>>

WriteOrigin ==
    Emit("write_origin", <<printed("ORIGIN", originLine(domain))>>, "write_ttl")

WriteTtl ==
    Emit("write_ttl", <<printed("TTL", ttlLine(ttl))>>, "write_soa")

WriteSOA ==
    IF "SOA" \in DOMAIN parsedContents
    THEN Emit("write_soa", <<printed("SOA", soaLine(parsedContents["SOA"]))>>, "write_ns")
    ELSE RaiseKeyError("write_soa")

WriteNS ==
    IF "NS" \in DOMAIN parsedContents
    THEN Emit("write_ns", printAll("NS", parsedContents["NS"]), "write_mx")
    ELSE RaiseKeyError("write_ns")

WriteMX ==
    IF "MX" \in DOMAIN parsedContents
    THEN Emit("write_mx", printAll("MX", parsedContents["MX"]), "write_a")
    ELSE RaiseKeyError("write_mx")

WriteA ==
    IF "A" \in DOMAIN parsedContents
    THEN Emit("write_a", printAll("A", parsedContents["A"]), "write_cname")
    ELSE Emit("write_a", <<>>, "write_cname")

WriteCNAME ==
    IF "CNAME" \in DOMAIN parsedContents
    THEN Emit("write_cname", printAll("CNAME", parsedContents["CNAME"]), "exit")
    ELSE Emit("write_cname", <<>>, "exit")

\* run() has returned: sys.exit(0)
Exit ==
    /\ pc = "exit"
    /\ pc' = "exited"
    /\ exitStatus' = 0
    /\ UNCHANGED <<labels, rawContents, lines, i, parsedContents, domain, ttl, output,
                   error>>

Next ==
    \/ ParseBegin
    \/ ParseLine
    \/ ParseEnd
    \/ WriteOrigin
    \/ WriteTtl
    \/ WriteSOA
    \/ WriteNS
    \/ WriteMX
    \/ WriteA
    \/ WriteCNAME
    \/ Exit

Spec == Init /\ [][Next]_vars

SpecFn == InitFn /\ [][Next]_vars

---------------------------------------------------------------------------
(* Vocabulary of the claims, stated on the text of the lines *)

\* the lines of the input text
InputLines == splitlines(rawContents)

\* the lines the loop of parse() has gone through without an exception
Processed == SubSeq(lines, 1, i - 1)

StartsWith(l, c) == l # <<>> /\ l[1] = c

Registers == {"Z", "&", "@", "+", "C"}

RegisterOf(type) ==
    CASE type = "SOA" -> "Z" [] type = "NS" -> "&" [] type = "MX" -> "@"
      [] type = "A" -> "+" [] type = "CNAME" -> "C"

ListTypes == {"NS", "MX", "A", "CNAME"}

\* the number of colon-separated fields of a line
NumFields(l) == 1 + Cardinality({k \in 1..Len(l) : l[k] = ":"})

RequiredFields(c) ==
    CASE c = "Z" -> 9 [] c = "&" -> 3 [] c = "@" -> 4 [] c = "+" -> 2 [] c = "C" -> 2

\* a line that is ignored, or has the fields its register requires
WellFormed(l) == l = <<>> \/ l[1] \notin Registers \/ NumFields(l) >= RequiredFields(l[1])

\* an SOA line with all its fields and a non-empty FQDN
ValidSoa(l) == StartsWith(l, "Z") /\ NumFields(l) >= 9 /\ l[2] # ":"

\* an SOA line with all its fields and an empty FQDN
EmptyFqdnSoa(l) == StartsWith(l, "Z") /\ NumFields(l) >= 9 /\ l[2] = ":"

CountIn(ls, c) == Cardinality({k \in 1..Len(ls) : StartsWith(ls[k], c)})

\* the statements of the printed lines, in order
Stmts == [k \in 1..Len(output) |-> output[k].stmt]

\* the texts printed by the statement stmt, in order
Texts(stmt) ==
    LET sel == SelectSeq(output, LAMBDA o : o.stmt = stmt)
    IN  [k \in 1..Len(sel) |-> sel[k].text]

CountOut(stmt) == Len(Texts(stmt))

Repeat(x, n) == [k \in 1..n |-> x]

\* parse() has returned
ParseReturned == pc \notin {"start", "parse"} /\ i > Len(lines)

---------------------------------------------------------------------------
(* C1 *)

\* C1: for an input with a valid SOA line, every line well-formed, one or more
\* NS, A and CNAME lines and no MX line, run() completes (exit status 0) and has
\* printed, in this order, the $ORIGIN line, the $TTL line, the SOA line, one NS
\* line per NS record, no MX line, one A line per A record and one CNAME line per
\* CNAME record.
C1_MissingTypeIsSkipped ==
    LET ls == InputLines
    IN  ( /\ pc = "exited"
          /\ \A k \in 1..Len(ls) : WellFormed(ls[k])
          /\ CountIn(ls, "Z") = 1
          /\ \E k \in 1..Len(ls) : ValidSoa(ls[k])
          /\ CountIn(ls, "&") >= 1
          /\ CountIn(ls, "+") >= 1
          /\ CountIn(ls, "C") >= 1
          /\ CountIn(ls, "@") = 0 )
        => /\ exitStatus = 0
           /\ Stmts = <<"ORIGIN", "TTL", "SOA">> \o Repeat("NS", CountIn(ls, "&"))
                      \o Repeat("A", CountIn(ls, "+")) \o Repeat("CNAME", CountIn(ls, "C"))

---------------------------------------------------------------------------
(* C2 *)

\* C2: for an input with no line that starts with 'Z', run() ends in a failure
\* and no line at all is ever printed.
C2_NoSoaNoOutput ==
    CountIn(InputLines, "Z") = 0
    => /\ output = <<>>
       /\ pc = "exited" => exitStatus # 0

---------------------------------------------------------------------------
(* C3 *)

\* C3: parse() does not get past an SOA line with an empty FQDN: it ends there
\* with sys.exit(2), the SOA entry is not stored, and no $ORIGIN line is printed.
C3_EmptySoaDomainIsFatal ==
    \A k \in 1..Len(lines) :
        EmptyFqdnSoa(lines[k])
        => /\ i <= k
           /\ (pc = "exited" /\ i = k)
              => /\ error = "SystemExit"
                 /\ exitStatus = 2
                 /\ "SOA" \notin DOMAIN parsedContents
           /\ CountOut("ORIGIN") = 0

---------------------------------------------------------------------------
(* C7 *)

\* C7: for an input with a valid SOA line and every line well-formed, when run()
\* has ended the number of printed NS, MX, A and CNAME lines equals, type by
\* type, the number of input lines with the register of the type.
C7_RecordCounts ==
    LET ls == InputLines
    IN  ( /\ pc = "exited"
          /\ \A k \in 1..Len(ls) : WellFormed(ls[k])
          /\ \E k \in 1..Len(ls) : ValidSoa(ls[k])
          /\ \A k \in 1..Len(ls) : ~EmptyFqdnSoa(ls[k]) )
        => \A type \in ListTypes : CountOut(type) = CountIn(ls, RegisterOf(type))

---------------------------------------------------------------------------
(* C4, C5 *)

\* the labels ls joined by '.'
RECURSIVE Dotted(_)
Dotted(ls) ==
    IF Len(ls) = 1 THEN ls[1]
    ELSE Dotted(SubSeq(ls, 1, Len(ls) - 1)) \o <<".">> \o ls[Len(ls)]

ExpectedDomain(ls) ==
    IF Len(ls) >= 3 THEN ls[Len(ls) - 1] \o <<".">> \o ls[Len(ls)] ELSE Dotted(ls)

ExpectedHost(ls) ==
    IF Len(ls) >= 3 THEN Dotted(SubSeq(ls, 1, Len(ls) - 2)) ELSE Dotted(ls) \o <<".">>

\* C4: for the FQDN made of the labels, _getDomain returns the last two labels
\* joined by '.' when there are 3 or more labels and all the labels joined by '.'
\* otherwise; this is the domain parse() derives from the SOA line of that FQDN.
C4_GetDomain ==
    labels # <<>>
    => /\ _getDomain(join(<<".">>, labels)) = PyStr(ExpectedDomain(labels))
       /\ i >= 2 => domain = PyStr(ExpectedDomain(labels))

\* w.ex.c -> ex.c, printed on the $ORIGIN line
C4_Witness ==
    /\ labels = <<<<"w">>, <<"e", "x">>, <<"c">>>>
    /\ pc = "exited"
    /\ domain = PyStr(<<"e", "x", ".", "c">>)
    /\ Texts("ORIGIN") = << <<"$", "O", "R", "I", "G", "I", "N", " ", "e", "x", ".", "c", ".">> >>

\* C5: for the FQDN made of the labels, _getHost returns all labels but the last
\* two joined by '.' when there are 3 or more labels, and all the labels joined by
\* '.' followed by one '.' otherwise; this is the hostname parse() stores for the A
\* and the CNAME line of that FQDN.
C5_GetHost ==
    labels # <<>>
    => /\ _getHost(join(<<".">>, labels), FALSE) = PyStr(ExpectedHost(labels))
       /\ i >= 5 => parsedContents["A"] =
                        << [hostname |-> PyStr(ExpectedHost(labels)), ip |-> <<"8">>] >>
       /\ i >= 6 => parsedContents["CNAME"][1].hostname = PyStr(ExpectedHost(labels))

\* w.c.ex.c -> w.c, and ex.c -> ex.c. is reached too
C5_Witness ==
    /\ labels = <<<<"w">>, <<"c">>, <<"e", "x">>, <<"c">>>>
    /\ pc = "exited"
    /\ parsedContents["A"][1].hostname = PyStr(<<"w", ".", "c">>)
    /\ parsedContents["CNAME"][1].hostname = PyStr(<<"w", ".", "c">>)

---------------------------------------------------------------------------
(* C6 *)

\* the index of the last SOA line parse() has gone through
LastProcessedSoa ==
    CHOOSE k \in 1..(i - 1) :
        /\ StartsWith(lines[k], "Z")
        /\ \A j \in (k + 1)..(i - 1) : ~StartsWith(lines[j], "Z")

\* C6: once parse() has gone through an SOA line, self.ttl is the ttl field
\* (field 8) of the last such line when that field is non-empty and the integer
\* 3600 when it is empty, the ttl of the stored SOA record is the field itself,
\* and the $TTL line prints self.ttl.
C6_TtlFallback ==
    (\E k \in 1..(i - 1) : StartsWith(lines[k], "Z"))
    => LET f == split(lines[LastProcessedSoa], ":")[9]
       IN  /\ ttl = IF f = <<>> THEN PyInt(3600) ELSE PyStr(f)
           /\ parsedContents["SOA"].ttl = f
           /\ CountOut("TTL") = 1
              => Texts("TTL")[1] = <<"$", "T", "T", "L", " ">>
                                   \o (IF f = <<>> THEN <<"3", "6", "0", "0">> ELSE f)

\* an SOA line with an empty ttl field: $TTL 3600 is printed
C6_Witness ==
    /\ pc = "exited"
    /\ lines = <<SoaLineNoTtl, NsLine, MxLine>>
    /\ ttl = PyInt(3600)
    /\ parsedContents["SOA"].ttl = <<>>
    /\ Texts("TTL") = << <<"$", "T", "T", "L", " ", "3", "6", "0", "0">> >>

---------------------------------------------------------------------------
(* C8 *)

\* the record parse() is to store for the line l of the type
ExpectedRR(type, l) ==
    LET d == split(l, ":")
    IN  CASE type = "NS" ->
               [hostname |-> Tail(d[1]), ip |-> d[2], targetHostname |-> d[3]]
          [] type = "MX" ->
               [hostname |-> Tail(d[1]), ip |-> d[2], targetHostname |-> d[3],
                priority |-> d[4]]
          [] type = "A" ->
               [hostname |-> _getHost(Tail(d[1]), FALSE), ip |-> d[2]]
          [] type = "CNAME" ->
               [hostname |-> _getHost(Tail(d[1]), FALSE), targetHostname |-> d[2]]

---------------------------------------------------------------------------
(* C9 *)

FirstSoa == CHOOSE k \in 1..Len(lines) :
                StartsWith(lines[k], "Z") /\ \A j \in 1..(k - 1) : ~StartsWith(lines[j], "Z")

LastSoa == CHOOSE k \in 1..Len(lines) :
               StartsWith(lines[k], "Z")
               /\ \A j \in (k + 1)..Len(lines) : ~StartsWith(lines[j], "Z")

\* the SOA record of the line l
ExpectedSoa(l) ==
    LET d == split(l, ":")
    IN  [domain |-> _getDomain(Tail(d[1])), nameserver |-> d[2], email |-> d[3],
         serial |-> d[4], refresh |-> d[5], retry |-> d[6], expire |-> d[7],
         minimum |-> d[8], ttl |-> d[9]]

\* the origin, the default TTL and the stored SOA record are those of the line l,
\* and so are the $ORIGIN, $TTL and SOA lines printed so far
Authoritative(l) ==
    /\ NumFields(l) >= 9
    /\ LET soa == ExpectedSoa(l)
           t   == IF soa.ttl = <<>> THEN PyInt(3600) ELSE PyStr(soa.ttl)
       IN
        /\ domain = soa.domain
        /\ ttl = t
        /\ parsedContents["SOA"] = soa
        /\ CountOut("ORIGIN") = 1 => Texts("ORIGIN")[1] = originLine(soa.domain)
        /\ CountOut("TTL") = 1 => Texts("TTL")[1] = ttlLine(t)
        /\ CountOut("SOA") = 1 => Texts("SOA")[1] = soaLine(soa)

\* write() has printed its first three lines, or has yet to
HeaderPrinted ==
    pc \notin {"write_origin", "write_ttl", "write_soa"}
    => CountOut("ORIGIN") = 1 /\ CountOut("TTL") = 1 /\ CountOut("SOA") = 1

\* C9 as stated: when parse() has returned from an input with SOA lines, the
\* first of them is the authoritative one.
C9_FirstSoaIsAuthoritative ==
    (ParseReturned /\ CountIn(lines, "Z") >= 1)
    => Authoritative(lines[FirstSoa]) /\ HeaderPrinted

\* C9 amended: when parse() has returned from an input with SOA lines, the last
\* of them is the authoritative one: the origin, the default TTL and the stored
\* SOA record are those of the last SOA line, and write() prints these.
C9_LastSoaIsAuthoritative ==
    (ParseReturned /\ CountIn(lines, "Z") >= 1)
    => Authoritative(lines[LastSoa]) /\ HeaderPrinted

\* two different SOA lines: the origin printed is that of the second
C9_Witness ==
    /\ lines = <<SoaLine, SoaLineNoTtl>>
    /\ pc = "exited"
    /\ Texts("ORIGIN") = << <<"$", "O", "R", "I", "G", "I", "N", " ", "x", ".", "y", ".">> >>
    /\ CountOut("SOA") = 1

---------------------------------------------------------------------------
(* C10 *)

\* an empty line, or a line whose first character is no register
Ignorable(l) == l = <<>> \/ l[1] \notin Registers

\* parse() has ended at line i with an exception or sys.exit
ParseFailed == pc = "exited" /\ i <= Len(lines)

\* the parser's state before the first line
ParserInit ==
    [parsedContents |-> <<>>, domain |-> None, ttl |-> None, error |-> "",
     exitStatus |-> -1]

\* C10: the record set, the domain and the default TTL that parse() has reached
\* over the lines it has taken are those of parse() over these lines with the
\* empty lines and the lines of an unknown register removed, and parse() never
\* ends with an error at such a line.
C10_IgnoredLinesChangeNothing ==
    pc # "start"
    => LET taken == SubSeq(lines, 1, IF ParseFailed THEN i ELSE i - 1)
           kept  == SelectSeq(taken, LAMBDA l : ~Ignorable(l))
           st    == parse(ParserInit, kept)
       IN  /\ parsedContents = st.parsedContents
           /\ domain = st.domain
           /\ ttl = st.ttl
           /\ ParseFailed => ~Ignorable(lines[i])

\* an empty line and a three-field line of an unknown register before the SOA line
C10_Witness ==
    /\ ParseReturned
    /\ lines = <<EmptyLine, CommentLine, SoaLine>>
    /\ "SOA" \in DOMAIN parsedContents
    /\ domain = PyStr(<<"e", ".", "c">>)

====
